---- MODULE Spec2Model ----
(***************************************************************************)
(* Booking admission and lifecycle of the resource-booking API             *)
(* (Backers/index.js over the tables of Backers/db.js).                    *)
(*                                                                         *)
(* Every pool.query is one SQL statement run in autocommit mode, so each   *)
(* statement is one atomic step; a handler that awaits two statements      *)
(* (POST /api/bookings: the conflict SELECT, then the INSERT) can be       *)
(* interleaved with other handlers between them.                           *)
(*                                                                         *)
(* Spec       requests answered one at a time, within one clock reading.   *)
(* SpecClock  requests answered one at a time while the clock advances.    *)
(* SpecConc   up to MaxProcs handlers in flight, interleaved statement by  *)
(*            statement.                                                   *)
(* SpecIntake requests answered one at a time, bodies that differ in       *)
(*            quantity and in the resource they name, callers with roles.  *)
(* SpecToken  the token-authenticated API of Backers/src (Prisma tables).  *)
(* SpecPage   the forecast state of the admin page (React state, effects   *)
(*            and fetch completions).                                      *)
(* SpecPageScheduled  the same page with effects run before the next      *)
(*            event and fairness for effects and fetches in flight.        *)
(* SpecClient bookings made from the client's drawer (src/App.tsx), which  *)
(*            checks for a conflict locally before it posts.               *)
(* SpecForecast  calls of generateBusyDayForecast (src/lib/forecast.ts) on  *)
(*            bounded booking histories while the browser's clock advances.*)
(***************************************************************************)
EXTENDS Integers, Sequences, FiniteSets, TLC

\* ------------------------------------------------------------------ bounds
MaxBookings == 2    \* values drawn from bookings_id_seq
MaxClock == 1       \* NOW() ranges over 0..MaxClock
MaxTime == 3        \* start_dt / end_dt range over the instants 0..MaxTime
MaxProcs == 2       \* request handlers in flight at once (SpecConc)
MaxBrowserClock == 3 \* the browser's clock ranges over 0..MaxBrowserClock

Procs == 1..MaxProcs
Times == 0..MaxTime

\* SQL NULL / a JSON field left out, and a present value.
Null == <<>>
Some(v) == <<v>>
Val(x) == x[1]

\* ----------------------------------------------------------------- catalog
\* Three rows of the seeded resources table: a single-unit vehicle, a
\* two-unit piece of equipment and a vehicle under maintenance.  No row has
\* id 4.
Catalog ==
  (1 :> [kind |-> "VEHICLE", name |-> "Car 1", quantity |-> 1, status |-> "Available"])
  @@ (2 :> [kind |-> "EQUIPMENT", name |-> "Podium", quantity |-> 2, status |-> "Available"])
  @@ (3 :> [kind |-> "VEHICLE", name |-> "Car 3", quantity |-> 1, status |-> "Maintenance"])

VARIABLES
  bookings,   \* the bookings table: id -> row
  seq,        \* bookings_id_seq: the last id handed out by SERIAL
  now,        \* the database clock read by NOW()
  pc,         \* per handler: "idle", "insert" (conflict SELECT done),
              \* "update" (id parsed), "reply" (statement done)
  held,       \* per handler: the request it is serving
  result,     \* per handler: the response it is about to send
  resp,       \* the last response sent
  tbookings,  \* the Booking table of the token-authenticated API: id -> row
  page,       \* the React state of the admin page (one field per useState)
  clock,      \* the browser's clock read by new Date(), in half days
  calc,       \* calls of generateBusyDayForecast: the arguments and what the
              \* last two calls returned
  drawer      \* the booking drawer of the client app: the toast it last showed

vars == <<bookings, seq, now, pc, held, result, resp, tbookings, page, clock, calc,
          drawer>>

\* What the handlers of Backers/index.js leave alone.
others == <<tbookings, page, clock, calc, drawer>>

\* What the handlers of the token-authenticated API leave alone.
pgvars == <<bookings, seq, now, pc, held, result, page, clock, calc, drawer>>

\* What the admin page leaves alone.
server == <<bookings, seq, now, pc, held, result, resp, tbookings, clock, calc,
           drawer>>

\* What a call of generateBusyDayForecast and the browser's clock leave alone.
backend == <<bookings, seq, now, pc, held, result, resp, tbookings, page, drawer>>

\* ------------------------------------------------------------------ inputs
\* A datetime field of the body: left out, unparseable, or the ISO string of
\* instant ms.
DtMissing == [tag |-> "missing", ms |-> 0]
DtInvalid == [tag |-> "invalid", ms |-> 0]
Iso(t) == [tag |-> "iso", ms |-> t]

\* Well-formed bodies for the single-unit vehicle: every window over Times
\* (end before, at or after start), one unit.
WellFormed ==
  {[kind |-> "VEHICLE", resource_id |-> 1, resource_name |-> "res",
    start_dt |-> Iso(s), end_dt |-> Iso(e), quantity |-> Some(1)] :
     s \in Times, e \in Times}

\* Bodies for one window of the two-unit equipment: quantity left out, zero,
\* one, two.
EquipmentBodies ==
  {[kind |-> "EQUIPMENT", resource_id |-> 2, resource_name |-> "res",
    start_dt |-> Iso(0), end_dt |-> Iso(1), quantity |-> q] :
     q \in {Null, Some(0), Some(1), Some(2)}}

\* Bodies that change one thing of a well-formed one: a field left out, a
\* date that does not parse, a lower-case kind, a resource not in the catalog.
BaseRequest ==
  [kind |-> "VEHICLE", resource_id |-> 1, resource_name |-> "res",
   start_dt |-> Iso(0), end_dt |-> Iso(1), quantity |-> Some(1)]
Malformed ==
  {[BaseRequest EXCEPT !.kind = ""],
   [BaseRequest EXCEPT !.resource_id = 0],
   [BaseRequest EXCEPT !.resource_name = ""],
   [BaseRequest EXCEPT !.start_dt = DtMissing],
   [BaseRequest EXCEPT !.end_dt = DtMissing],
   [BaseRequest EXCEPT !.start_dt = DtInvalid],
   [BaseRequest EXCEPT !.end_dt = DtInvalid],
   [BaseRequest EXCEPT !.kind = "vehicle"],
   [BaseRequest EXCEPT !.resource_id = 4]}

Requests == WellFormed \cup EquipmentBodies \cup Malformed

\* Bodies that pass validation but name a resource that cannot be booked as
\* asked: another kind than the resource's, a resource under maintenance, a
\* resource_id without a row.
Unbookable ==
  {[BaseRequest EXCEPT !.kind = "EQUIPMENT"],
   [BaseRequest EXCEPT !.resource_id = 3],
   [BaseRequest EXCEPT !.resource_id = 4]}

\* Bodies for the two-unit equipment over two adjacent windows, with the
\* quantity left out, negative, zero, one, two.
QuantityBodies ==
  {[kind |-> "EQUIPMENT", resource_id |-> 2, resource_name |-> "res",
    start_dt |-> Iso(s), end_dt |-> Iso(s + 1), quantity |-> q] :
     s \in {0, 1}, q \in {Null, Some(-1), Some(0), Some(1), Some(2)}}

IntakeRequests == {BaseRequest} \cup Unbookable \cup QuantityBodies

Ops == {"start", "finish", "cancel"}
IdInputs == 1..(MaxBookings + 1)

\* The x-demo-role header of a request, upper-cased; "" when it is absent.
Roles == {"", "STUDENT", "STAFF", "ADMIN"}

NoRequest == [op |-> "none"]
NoResponse == [code |-> 0, error |-> ""]

\* ------------------------------------------------------------ pure helpers
\* String(kind).toUpperCase()
ToUpper(k) ==
  CASE k = "vehicle" -> "VEHICLE"
    [] k = "equipment" -> "EQUIPMENT"
    [] k = "facility" -> "FACILITY"
    [] OTHER -> k

\* new Date(x): the instant, or Null for an Invalid Date (NaN).
ParseDate(d) == IF d.tag = "iso" THEN Some(d.ms) ELSE Null

\* Validate with the window test written end < start: an empty window passes.
ValidateAllowsEmptyWindow(req) ==
  IF \/ req.kind = ""
     \/ req.resource_id = 0
     \/ req.resource_name = ""
     \/ req.start_dt.tag = "missing"
     \/ req.end_dt.tag = "missing"
    THEN "Missing required fields"
  ELSE IF ParseDate(req.start_dt) = Null \/ ParseDate(req.end_dt) = Null
    THEN "Invalid datetime format"
  ELSE IF Val(ParseDate(req.end_dt)) < Val(ParseDate(req.start_dt))
    THEN "End time must be after start time"
  ELSE ""

\* The "Basic validation" block of POST /api/bookings: the error of the 400
\* response, or "" when the request passes.
Validate(req) ==
  IF \/ req.kind = ""
     \/ req.resource_id = 0
     \/ req.resource_name = ""
     \/ req.start_dt.tag = "missing"
     \/ req.end_dt.tag = "missing"
    THEN "Missing required fields"
  ELSE IF ParseDate(req.start_dt) = Null \/ ParseDate(req.end_dt) = Null
    THEN "Invalid datetime format"
  ELSE IF Val(ParseDate(req.end_dt)) <= Val(ParseDate(req.start_dt))
    THEN "End time must be after start time"
  ELSE ""

\* Overlaps with closed windows: meeting at an endpoint counts as overlap.
OverlapsClosed(newStart, newEnd, exStart, exEnd) ==
  ~(newEnd < exStart \/ newStart > exEnd)

\* The WHERE clause's time predicate: NOT ($4 <= start_dt OR $3 >= end_dt),
\* $3 = new start, $4 = new end.
Overlaps(newStart, newEnd, exStart, exEnd) ==
  ~(newEnd <= exStart \/ newStart >= exEnd)

\* ConflictRows without the status filter: finished and cancelled bookings
\* keep blocking their window.
ConflictRowsAnyStatus(bks, kind, rid, s, e) ==
  {i \in DOMAIN bks :
     /\ bks[i].kind = kind
     /\ bks[i].resource_id = rid
     /\ Overlaps(s, e, bks[i].start_dt, bks[i].end_dt)}

\* The rows conflictSql selects (before LIMIT 1).
ConflictRows(bks, kind, rid, s, e) ==
  {i \in DOMAIN bks :
     /\ bks[i].kind = kind
     /\ bks[i].resource_id = rid
     /\ bks[i].status \in {"REQUEST", "ONGOING"}
     /\ Overlaps(s, e, bks[i].start_dt, bks[i].end_dt)}

\* The parameters the handler derives from a validated body.
Normalize(req) ==
  [op |-> "submit",
   kind |-> ToUpper(req.kind),
   resource_id |-> req.resource_id,
   resource_name |-> req.resource_name,
   start_dt |-> Val(ParseDate(req.start_dt)),
   end_dt |-> Val(ParseDate(req.end_dt)),
   quantity |-> IF req.quantity = Null \/ req.quantity = Some(0)
                  THEN Null ELSE req.quantity]

\* NewRow stored as already started.
NewRowStarted(r, t) ==
  [kind |-> r.kind, resource_id |-> r.resource_id, resource_name |-> r.resource_name,
   start_dt |-> r.start_dt, end_dt |-> r.end_dt, quantity |-> r.quantity,
   status |-> "ONGOING", created_at |-> t, updated_at |-> Some(t),
   started_at |-> Some(t), ended_at |-> Null, canceled_at |-> Null]

\* The row the INSERT stores.
NewRow(r, t) ==
  [kind |-> r.kind, resource_id |-> r.resource_id, resource_name |-> r.resource_name,
   start_dt |-> r.start_dt, end_dt |-> r.end_dt, quantity |-> r.quantity,
   status |-> "REQUEST", created_at |-> t, updated_at |-> Some(t),
   started_at |-> Null, ended_at |-> Null, canceled_at |-> Null]

\* The SET clause of the three status UPDATEs.
UpdatedRow(row, op, t) ==
  CASE op = "start" ->
         [row EXCEPT !.status = "ONGOING", !.started_at = Some(t), !.updated_at = Some(t)]
    [] op = "finish" ->
         [row EXCEPT !.status = "SUCCESS", !.ended_at = Some(t), !.updated_at = Some(t)]
    [] op = "cancel" ->
         [row EXCEPT !.status = "CANCEL", !.canceled_at = Some(t), !.updated_at = Some(t)]

Respond(code, error) == [code |-> code, error |-> error]

\* requireRole(roles): the gate passes a request whose role is listed.
requireRole(roles, role) == role \in roles

\* Conflict by capacity: only when the overlapping bookings already number
\* the resource's quantity.
ConflictWhenFull(bks, r) ==
  /\ r.resource_id \in DOMAIN Catalog
  /\ Cardinality(ConflictRows(bks, r.kind, r.resource_id, r.start_dt, r.end_dt))
       >= Catalog[r.resource_id].quantity

\* The conflict SELECT returned a row (rowCount > 0).
Conflict(bks, r) ==
  ConflictRows(bks, r.kind, r.resource_id, r.start_dt, r.end_dt) # {}

\* POST /api/bookings up to the INSERT: the 400 or 409 it answers, or
\* NoResponse when it goes on to the INSERT.
CheckResponse(bks, req) ==
  LET error == Validate(req) IN
    IF error # "" THEN Respond(400, error)
    ELSE IF Conflict(bks, Normalize(req)) THEN Respond(409, "CONFLICT")
    ELSE NoResponse

\* InsertResult with the row kept when the foreign key rejects it.
InsertResultKeepsRejected(bks, sq, t, r) ==
  [bookings |-> bks @@ ((sq + 1) :> NewRow(r, t)), seq |-> sq + 1,
   resp |-> IF r.resource_id \in DOMAIN Catalog
              THEN Respond(201, "") ELSE Respond(500, "Server error")]

\* INSERT INTO bookings ... RETURNING * and the response that follows it.
\* The SERIAL default draws the id before the foreign key on resource_id is
\* checked, so a rejected INSERT (caught: 500) still advances the sequence.
InsertResult(bks, sq, t, r) ==
  IF r.resource_id \in DOMAIN Catalog
    THEN [bookings |-> bks @@ ((sq + 1) :> NewRow(r, t)), seq |-> sq + 1,
          resp |-> Respond(201, "")]
    ELSE [bookings |-> bks, seq |-> sq + 1, resp |-> Respond(500, "Server error")]

\* POST /api/bookings from the request to the response.
SubmitResult(bks, sq, t, req) ==
  LET early == CheckResponse(bks, req) IN
    IF early # NoResponse
      THEN [bookings |-> bks, seq |-> sq, resp |-> early]
      ELSE InsertResult(bks, sq, t, Normalize(req))

\* UpdateResult without the rowCount test: an id that matches no row is
\* answered 200.
UpdateResultNoRowCheck(bks, t, op, id) ==
  IF id \in DOMAIN bks
    THEN [bookings |-> [bks EXCEPT ![id] = UpdatedRow(@, op, t)],
          resp |-> Respond(200, "")]
    ELSE [bookings |-> bks, resp |-> Respond(200, "")]

\* UPDATE bookings SET ... WHERE id=$1 RETURNING * and the response.
UpdateResult(bks, t, op, id) ==
  IF id \in DOMAIN bks
    THEN [bookings |-> [bks EXCEPT ![id] = UpdatedRow(@, op, t)],
          resp |-> Respond(200, "")]
    ELSE [bookings |-> bks, resp |-> Respond(404, "Not found")]

\* -------------------------------------------------------------------- init
Constructed ==
  /\ bookings = <<>>
  /\ seq = 0
  /\ now = 0
  /\ pc = [p \in Procs |-> "idle"]
  /\ held = [p \in Procs |-> NoRequest]
  /\ result = [p \in Procs |-> NoResponse]
  /\ resp = NoResponse
  /\ tbookings = <<>>
  /\ page = [tab |-> "RESOURCES",
             bookings |-> <<>>, loadingBk |-> FALSE, bkErr |-> Null,
             forecast |-> Null, loadingForecast |-> FALSE,
             forecastErr |-> Null, forecastNote |-> Null,
             forecastAttempted |-> FALSE, fallbackSignature |-> Null,
             captured |-> Null]
  /\ drawer = [toast |-> ""]

\* No call of the forecast generator made yet.
NoCall == [bookings |-> <<>>,
           options |-> [horizonDays |-> Null, smoothingFactor |-> Null],
           last |-> Null, earlier |-> Null]

Init ==
  /\ Constructed
  /\ clock = 0
  /\ calc = NoCall

\* --------------------------------------------- handlers, run one at a time
Idle == \A p \in Procs : pc[p] = "idle"

\* POST /api/bookings.
Submit(req) ==
  LET out == SubmitResult(bookings, seq, now, req) IN
    /\ Idle
    /\ out.seq <= MaxBookings
    /\ bookings' = out.bookings
    /\ seq' = out.seq
    /\ resp' = out.resp
    /\ UNCHANGED <<now, pc, held, result>>
    /\ UNCHANGED others

\* POST /api/bookings/:id/start, /finish, /cancel.
Transition(op, id) ==
  LET out == UpdateResult(bookings, now, op, id) IN
    /\ Idle
    /\ bookings' = out.bookings
    /\ resp' = out.resp
    /\ UNCHANGED <<seq, now, pc, held, result>>
    /\ UNCHANGED others

\* POST /api/bookings/:id/start, /finish, /cancel sent with a role header.
\* The three routes are registered without middleware and the handlers never
\* read req.headers, so the role plays no part.
TransitionAs(role, op, id) == Transition(op, id)

\* ------------------------------------------ the booking drawer of the client
\* overlaps of App.tsx, on instants.
overlapsLocal(aStart, aEnd, bStart, bEnd) == ~(aEnd <= bStart \/ aStart >= bEnd)

\* hasLocalConflict over the client's booking list.
hasLocalConflict(list, kind, resourceId, s, e) ==
  \E i \in DOMAIN list :
    /\ list[i].kind = kind
    /\ list[i].resource_id = resourceId
    /\ list[i].status \in {"REQUEST", "ONGOING"}
    /\ overlapsLocal(s, e, list[i].start_dt, list[i].end_dt)

\* What the drawer submits once its field checks have passed: a listed
\* resource with its kind and name, any start and end the two datetime
\* inputs hold (here: the instants before MaxTime), a quantity for equipment
\* only.
DrawerRequests ==
  {[kind |-> Catalog[id].kind, resource_id |-> id, resource_name |-> Catalog[id].name,
    start_dt |-> Iso(s), end_dt |-> Iso(e),
    quantity |-> IF Catalog[id].kind = "EQUIPMENT" THEN Some(1) ELSE Null] :
     id \in {1, 2}, s \in 0..(MaxTime - 1), e \in 0..(MaxTime - 1)}

\* createBookingFromDrawer from the local pre-check on: the toast of a local
\* conflict, or the POST and the toast of its answer.  The client's booking
\* list is the server's table.
createBookingFromDrawer(req) ==
  /\ Idle
  /\ IF hasLocalConflict(bookings, req.kind, req.resource_id,
                         req.start_dt.ms, req.end_dt.ms)
       THEN /\ drawer' = [toast |-> "Conflicts with an existing booking."]
            /\ UNCHANGED <<bookings, seq, resp>>
       ELSE LET out == SubmitResult(bookings, seq, now, req) IN
              /\ out.seq <= MaxBookings
              /\ bookings' = out.bookings
              /\ seq' = out.seq
              /\ resp' = out.resp
              /\ drawer' = [toast |->
                   IF out.resp.code = 201 THEN "booked successfully."
                   ELSE IF out.resp.code = 409
                     THEN "That resource is already booked for this time window."
                   ELSE out.resp.error]
  /\ UNCHANGED <<now, pc, held, result, tbookings, page, clock, calc>>

\* ------------------------------------- handlers, one SQL statement at a time
Inserting == {q \in Procs : pc[q] = "insert"}

\* POST /api/bookings up to and including the conflict SELECT.
SubmitCheck(p, req) ==
  /\ pc[p] = "idle"
  /\ UNCHANGED <<bookings, seq, now, resp>>
  /\ UNCHANGED others
  /\ LET early == CheckResponse(bookings, req) IN
       IF early # NoResponse
         THEN /\ pc' = [pc EXCEPT ![p] = "reply"]
              /\ held' = [held EXCEPT ![p] = [op |-> "submit"]]
              /\ result' = [result EXCEPT ![p] = early]
         ELSE /\ seq + Cardinality(Inserting) < MaxBookings
              /\ pc' = [pc EXCEPT ![p] = "insert"]
              /\ held' = [held EXCEPT ![p] = Normalize(req)]
              /\ UNCHANGED result

\* POST /api/bookings, the INSERT.
SubmitInsert(p) ==
  /\ pc[p] = "insert"
  /\ LET out == InsertResult(bookings, seq, now, held[p]) IN
       /\ bookings' = out.bookings
       /\ seq' = out.seq
       /\ result' = [result EXCEPT ![p] = out.resp]
  /\ pc' = [pc EXCEPT ![p] = "reply"]
  /\ UNCHANGED <<now, held, resp>>
  /\ UNCHANGED others

\* POST /api/bookings/:id/start|finish|cancel received, id parsed.  seen is
\* the row's status at that moment; the handler never reads it.
Receive(p, op, id) ==
  /\ pc[p] = "idle"
  /\ pc' = [pc EXCEPT ![p] = "update"]
  /\ held' = [held EXCEPT ![p] =
       [op |-> op, id |-> id,
        seen |-> IF id \in DOMAIN bookings THEN bookings[id].status ELSE "none"]]
  /\ UNCHANGED <<bookings, seq, now, result, resp>>
  /\ UNCHANGED others

\* POST /api/bookings/:id/start|finish|cancel, the UPDATE.
Update(p) ==
  /\ pc[p] = "update"
  /\ LET out == UpdateResult(bookings, now, held[p].op, held[p].id) IN
       /\ bookings' = out.bookings
       /\ result' = [result EXCEPT ![p] = out.resp]
  /\ pc' = [pc EXCEPT ![p] = "reply"]
  /\ UNCHANGED <<seq, now, held, resp>>
  /\ UNCHANGED others

\* The handler resumes after its last statement and sends the response.
Reply(p) ==
  /\ pc[p] = "reply"
  /\ resp' = result[p]
  /\ pc' = [pc EXCEPT ![p] = "idle"]
  /\ held' = [held EXCEPT ![p] = NoRequest]
  /\ result' = [result EXCEPT ![p] = NoResponse]
  /\ UNCHANGED <<bookings, seq, now>>
  /\ UNCHANGED others

\* Time passes on the database server.
Tick ==
  /\ now < MaxClock
  /\ now' = now + 1
  /\ UNCHANGED <<bookings, seq, pc, held, result, resp>>
  /\ UNCHANGED others

\* ------------------------------------------------ the token-authenticated API
\* Backers/src: every booking route runs behind requireAuth, which answers
\* 401 without a valid token and otherwise sets req.user = { id, role } from
\* the token's payload.  The callers below hold valid tokens.
Users ==
  {[id |-> "u1", role |-> "STUDENT"], [id |-> "u2", role |-> "STUDENT"],
   [id |-> "u3", role |-> "STAFF"], [id |-> "u4", role |-> "ADMIN"]}

\* The Resource table: one resource, created with two units.
TokenResources == ("r1" :> [qtyTotal |-> 2])

\* Bodies of POST /bookings for that resource.
TokenBodies ==
  {[resourceId |-> "r1", start |-> Iso(s), end |-> Iso(e), qty |-> q] :
     s \in {0, 1}, e \in {1, 2}, q \in {Null, Some(0), Some(2)}}

\* Bodies of PATCH /bookings/:id/status: the enum's values and another one.
StatusInputs == {"PENDING", "APPROVED", "REJECTED", "CANCELLED", "DONE"}

\* createBookingSchema.safeParse: Null when it fails, else the parsed data
\* (qty defaults to 1).
ParseBooking(body) ==
  IF \/ body.resourceId = ""
     \/ ParseDate(body.start) = Null \/ ParseDate(body.end) = Null
     \/ (body.qty # Null /\ Val(body.qty) < 1)
    THEN Null
  ELSE IF ~(Val(ParseDate(body.end)) > Val(ParseDate(body.start)))
    THEN Null
  ELSE Some([resourceId |-> body.resourceId,
             start |-> Val(ParseDate(body.start)),
             end |-> Val(ParseDate(body.end)),
             qty |-> IF body.qty = Null THEN 1 ELSE Val(body.qty)])

RECURSIVE SumQty(_, _)
SumQty(tb, ids) ==
  IF ids = {} THEN 0
  ELSE LET i == CHOOSE x \in ids : TRUE
       IN tb[i].qty + SumQty(tb, ids \ {i})

\* hasConflict, for a resource that exists.
hasConflict(tb, resourceId, start, end, qty) ==
  LET overlaps == {i \in DOMAIN tb :
                     /\ tb[i].resourceId = resourceId
                     /\ tb[i].status \in {"APPROVED", "PENDING"}
                     /\ ~(tb[i].end <= start)
                     /\ ~(tb[i].start >= end)}
      totalHeld == SumQty(tb, overlaps)
  IN totalHeld + qty > TokenResources[resourceId].qtyTotal

\* POST /bookings (requireAuth, createBooking).
CreateBooking(user, body) ==
  LET parsed == ParseBooking(body)
      id == Cardinality(DOMAIN tbookings) + 1
  IN /\ Idle
     /\ IF parsed = Null
          THEN /\ resp' = Respond(400, "errors")
               /\ UNCHANGED tbookings
        ELSE IF hasConflict(tbookings, Val(parsed).resourceId, Val(parsed).start,
                            Val(parsed).end, Val(parsed).qty)
          THEN /\ resp' = Respond(409, "Resource not available for the requested time/qty")
               /\ UNCHANGED tbookings
        ELSE /\ id <= MaxBookings
             /\ tbookings' = tbookings @@
                  (id :> [resourceId |-> Val(parsed).resourceId, userId |-> user.id,
                          start |-> Val(parsed).start, end |-> Val(parsed).end,
                          qty |-> Val(parsed).qty, status |-> "PENDING"])
             /\ resp' = Respond(201, "")
     /\ UNCHANGED pgvars

\* PATCH /bookings/:id/status (requireAuth, requireRole('ADMIN','STAFF'),
\* updateBookingStatus).
UpdateBookingStatus(user, id, status) ==
  /\ Idle
  /\ IF ~requireRole({"ADMIN", "STAFF"}, user.role)
       THEN /\ resp' = Respond(403, "Forbidden")
            /\ UNCHANGED tbookings
     ELSE IF status \notin {"PENDING", "APPROVED", "REJECTED", "CANCELLED"}
       THEN /\ resp' = Respond(400, "errors")
            /\ UNCHANGED tbookings
     ELSE IF id \in DOMAIN tbookings
       THEN /\ tbookings' = [tbookings EXCEPT ![id].status = status]
            /\ resp' = Respond(200, "")
     ELSE /\ resp' = Respond(404, "Booking not found")
          /\ UNCHANGED tbookings
  /\ UNCHANGED pgvars

\* POST /bookings/:id/cancel (requireAuth, cancelBooking).
CancelBooking(user, id) ==
  /\ Idle
  /\ IF id \notin DOMAIN tbookings
       THEN /\ resp' = Respond(404, "Booking not found")
            /\ UNCHANGED tbookings
     ELSE IF user.role # "ADMIN" /\ tbookings[id].userId # user.id
       THEN /\ resp' = Respond(403, "Forbidden")
            /\ UNCHANGED tbookings
     ELSE /\ tbookings' = [tbookings EXCEPT ![id].status = "CANCELLED"]
          /\ resp' = Respond(200, "")
  /\ UNCHANGED pgvars

\* ---------------------------------------------------------- the admin page
\* The forecast state of the admin page.  Instants of a booking list and of
\* the browser's clock are counted in half days: 0 is 00:00 UTC of day 0,
\* 1 is 12:00 of day 0, -2 is 00:00 of day -1.
FORECAST_HORIZON_DAYS == 14

Tabs == {"RESOURCES", "DASHBOARD", "APPROVALS"}

\* The UTC calendar day of an instant (isoDateOnly).
isoDateOnly(ms) == ms \div 2

\* Booking lists GET /api/bookings may return.
PastTwo == [start_dt |-> Iso(-2), status |-> "SUCCESS", quantity |-> Some(2)]
PastCancelled == [start_dt |-> Iso(-2), status |-> "CANCEL", quantity |-> Some(1)]
TodayNoon == [start_dt |-> Iso(1), status |-> "REQUEST", quantity |-> Null]
TodayStart == [start_dt |-> Iso(0), status |-> "REQUEST", quantity |-> Some(1)]
BookingLists ==
  {<<>>, <<PastTwo>>, <<PastCancelled>>, <<PastTwo, PastCancelled>>,
   <<TodayNoon, PastTwo>>, <<TodayStart, PastTwo>>}

\* Increment taking any quantity that is given: quantity ?? 1.
IncrementAsGiven(b) ==
  IF b.quantity # Null THEN Val(b.quantity) ELSE 1

\* quantity when it is a number above 0, else 1.
Increment(b) ==
  IF b.quantity # Null /\ Val(b.quantity) > 0 THEN Val(b.quantity) ELSE 1

RECURSIVE SumIncrements(_, _)
SumIncrements(list, idx) ==
  IF idx = {} THEN 0
  ELSE LET i == CHOOSE x \in idx : TRUE
       IN Increment(list[i]) + SumIncrements(list, idx \ {i})

\* JavaScript numbers that are ratios of integers, kept exact: <<n, d>> in
\* lowest terms with d > 0.
RECURSIVE GCD(_, _)
GCD(a, b) == IF b = 0 THEN a ELSE GCD(b, a % b)

Abs(x) == IF x < 0 THEN -x ELSE x

Rat(n, d) ==
  LET g == GCD(Abs(n), Abs(d))
      sign == IF d < 0 THEN -1 ELSE 1
  IN <<(sign * n) \div g, (sign * d) \div g>>

RAdd(x, y) ==
  LET g == GCD(x[2], y[2])
  IN Rat(x[1] * (y[2] \div g) + y[1] * (x[2] \div g), (x[2] \div g) * y[2])

RSub(x, y) == RAdd(x, <<-y[1], y[2]>>)

RMul(x, y) ==
  IF x[1] = 0 \/ y[1] = 0 THEN <<0, 1>>
  ELSE LET g1 == GCD(Abs(x[1]), y[2])
           g2 == GCD(Abs(y[1]), x[2])
       IN <<(x[1] \div g1) * (y[1] \div g2), (x[2] \div g2) * (y[2] \div g1)>>

\* x / y for y # 0.
RDiv(x, y) == RMul(x, IF y[1] < 0 THEN <<-y[2], -y[1]>> ELSE <<y[2], y[1]>>)

RLess(x, y) == x[1] * y[2] < y[1] * x[2]

\* Math.max(0, Math.min(1, x)).
Clamp01(x) == IF RLess(x, <<0, 1>>) THEN <<0, 1>>
              ELSE IF RLess(<<1, 1>>, x) THEN <<1, 1>> ELSE x

\* Number(x.toFixed(k)) for x >= 0, in units of 1/scale (scale = 10^k): the
\* nearest multiple, a tie going up.
ToFixed(x, scale) == (2 * x[1] * scale + x[2]) \div (2 * x[2])

\* The UTC day of an instant, and the weekday (getUTCDay) of a day: day 0 is
\* a Sunday.
Today(clk) == clk \div 2
Midnight(day) == 2 * day
Weekday(day) == day % 7

RECURSIVE SumOver(_, _)
SumOver(f, S) ==
  IF S = {} THEN 0
  ELSE LET x == CHOOSE y \in S : TRUE IN f[x] + SumOver(f, S \ {x})

\* countsByDay without the test that skips a start after today's midnight:
\* upcoming bookings are history too.
CountsByDayWithUpcoming(list, clk) ==
  LET counted == {i \in 1..Len(list) :
                    /\ list[i].start_dt.tag = "iso"
                    /\ list[i].status # "CANCEL"}
      days == {isoDateOnly(list[i].start_dt.ms) : i \in counted}
  IN [d \in days |->
        SumIncrements(list, {i \in counted : isoDateOnly(list[i].start_dt.ms) = d})]

\* countsByDay of generateBusyDayForecast: per UTC day, the increments of the
\* bookings that have a parseable start not after today's midnight and are
\* not cancelled.
CountsByDay(list, clk) ==
  LET counted == {i \in 1..Len(list) :
                    /\ list[i].start_dt.tag = "iso"
                    /\ list[i].status # "CANCEL"
                    /\ ~(list[i].start_dt.ms > Midnight(Today(clk)))}
      days == {isoDateOnly(list[i].start_dt.ms) : i \in counted}
  IN [d \in days |->
        SumIncrements(list, {i \in counted : isoDateOnly(list[i].start_dt.ms) = d})]

mean(counts) ==
  IF DOMAIN counts = {} THEN <<0, 1>>
  ELSE Rat(SumOver(counts, DOMAIN counts), Cardinality(DOMAIN counts))

\* standardDeviation before its Math.sqrt: the population variance.  The
\* deviation is 0 exactly when the variance is.
variance(counts, avg) ==
  IF DOMAIN counts = {} THEN <<0, 1>>
  ELSE LET sq == [d \in DOMAIN counts |->
                    (counts[d] * avg[2] - avg[1]) * (counts[d] * avg[2] - avg[1])]
       IN RDiv(Rat(SumOver(sq, DOMAIN counts), avg[2] * avg[2]),
               <<Cardinality(DOMAIN counts), 1>>)

\* getWeekdayAverages: Null stands for the NaN of a weekday without history.
getWeekdayAverages(counts) ==
  [w \in 0..6 |->
     LET on == {d \in DOMAIN counts : Weekday(d) = w}
     IN IF on = {} THEN Null ELSE Some(Rat(SumOver(counts, on), Cardinality(on)))]

\* exponentialMovingAverage over the counts in date order, as smoothedByDate:
\* the smoothed value of day d.
RECURSIVE exponentialMovingAverage(_, _, _)
exponentialMovingAverage(counts, alpha, d) ==
  LET before == {x \in DOMAIN counts : x < d}
      safeAlpha == Clamp01(alpha)
  IN IF before = {} THEN <<counts[d], 1>>
     ELSE LET prev == CHOOSE x \in before : \A y \in before : y <= x
          IN RAdd(RMul(safeAlpha, <<counts[d], 1>>),
                  RMul(RSub(<<1, 1>>, safeAlpha),
                       exponentialMovingAverage(counts, alpha, prev)))

\* The weights of the blend with the smoothed value of seven days before.
\* BlendBaselineAsSmoothed gives the baseline the weight of the smoothed value.
BlendBaselineAsSmoothed == <<3, 5>>

BlendBaseline == <<2, 5>>
BlendSmoothed == <<3, 5>>

\* expectedBookings of the day `future`, before rounding.
expectedBookings(counts, alpha, future) ==
  LET weekdayMean == getWeekdayAverages(counts)[Weekday(future)]
      baseline == IF weekdayMean # Null THEN Val(weekdayMean) ELSE mean(counts)
      lookback == future - 7
  IN IF lookback \in DOMAIN counts
       THEN RAdd(RMul(baseline, BlendBaseline),
                 RMul(exponentialMovingAverage(counts, alpha, lookback), BlendSmoothed))
       ELSE baseline

\* floor(10^digits * r / d) for 0 <= r < d, by long division.
RECURSIVE Scaled(_, _, _, _)
Scaled(q, r, d, digits) ==
  IF digits = 0 THEN q
  ELSE Scaled(10 * q + (10 * r) \div d, (10 * r) % d, d, digits - 1)

\* With r = (expected - mean) / std the logistic value is 1/(1+exp(0.5 - r)).
\* It is <= 0.4, < 0.4005, < 0.5995, < 0.6 when r is below 0.0945349,
\* 0.0966178, 0.9033822, 0.9054651; these are the squares of those bounds in
\* units of 10^-7, cut off after the last digit, for comparing with r * r.
LogitQuiet == 89368
LogitRoundsTo400 == 93350
LogitRoundsTo600 == 8160994
LogitBusy == 8198671

\* flatProbability without the case of an empty history.
flatProbabilityNoEmptyCase(expected, avg) ==
  IF RLess(avg, expected) THEN 650 ELSE 450

\* busyProbability when overallStd === 0, in thousandths.
flatProbability(expected, avg) ==
  IF RLess(avg, expected) THEN 650
  ELSE IF avg = <<0, 1>> /\ expected = <<0, 1>> THEN 200
  ELSE 450

\* busyProbability after Math.max/Math.min, as the label sees it (quiet: it
\* is <= 0.4, busy: it is >= 0.6) and as emitted by toFixed(3): the
\* thousandths lo..hi that the emitted number lies in.
clippedProbability(expected, avg, var) ==
  IF var = <<0, 1>>
    THEN LET p == flatProbability(expected, avg)
         IN [quiet |-> p <= 400, busy |-> p >= 600, lo |-> p, hi |-> p]
  ELSE IF ~RLess(avg, expected)
    THEN [quiet |-> TRUE, busy |-> FALSE, lo |-> 0, hi |-> 378]
  ELSE LET diff == RSub(expected, avg)
           r2 == RDiv(RMul(diff, diff), var)
           x == IF r2[1] >= r2[2] THEN LogitBusy ELSE Scaled(0, r2[1], r2[2], 7)
       IN IF x < LogitQuiet
            THEN [quiet |-> TRUE, busy |-> FALSE, lo |-> 378, hi |-> 400]
          ELSE IF x < LogitRoundsTo400
            THEN [quiet |-> FALSE, busy |-> FALSE, lo |-> 400, hi |-> 400]
          ELSE IF x < LogitRoundsTo600
            THEN [quiet |-> FALSE, busy |-> FALSE, lo |-> 401, hi |-> 599]
          ELSE IF x < LogitBusy
            THEN [quiet |-> FALSE, busy |-> FALSE, lo |-> 600, hi |-> 600]
          ELSE [quiet |-> FALSE, busy |-> TRUE, lo |-> 600, hi |-> 1000]

\* ForecastPoint with the loop counting from 0: the first point is today's.
ForecastPointFromToday(counts, alpha, today, i) ==
  LET expected == expectedBookings(counts, alpha, today + i - 1)
      avg == mean(counts)
      p == clippedProbability(expected, avg, variance(counts, avg))
  IN [date |-> today + i - 1,
      expectedBookings |-> ToFixed(expected, 100),
      busyProbability |-> [lo |-> p.lo, hi |-> p.hi],
      label |-> IF p.busy THEN "BUSY" ELSE IF p.quiet THEN "QUIET" ELSE "NORMAL"]

\* One pass of the horizon loop: the point of day today + i.  expectedBookings
\* is in hundredths, busyProbability the range of thousandths of the emitted
\* number.
ForecastPoint(counts, alpha, today, i) ==
  LET expected == expectedBookings(counts, alpha, today + i)
      avg == mean(counts)
      p == clippedProbability(expected, avg, variance(counts, avg))
  IN [date |-> today + i,
      expectedBookings |-> ToFixed(expected, 100),
      busyProbability |-> [lo |-> p.lo, hi |-> p.hi],
      label |-> IF p.busy THEN "BUSY" ELSE IF p.quiet THEN "QUIET" ELSE "NORMAL"]

\* options.smoothingFactor ?? 0.3.
DefaultSmoothing == <<3, 10>>

\* generateBusyDayForecast(bookings, options) called when the browser's clock
\* reads clk.  options.smoothWindow is read and never used.
generateBusyDayForecast(list, options, clk) ==
  LET horizonDays == IF options.horizonDays = Null THEN 14
                     ELSE Val(options.horizonDays)
      smoothingFactor == IF options.smoothingFactor = Null THEN DefaultSmoothing
                         ELSE Val(options.smoothingFactor)
      today == Today(clk)
      counts == CountsByDay(list, clk)
  IN [generated_at |-> Some(clk),
      horizon_days |-> horizonDays,
      model |-> "weekday-ema",
      points |-> [i \in 1..horizonDays |->
                    ForecastPoint(counts, smoothingFactor, today, i)],
      notes |-> Some("Generated locally from booking history via exponential moving averages."),
      usingFallback |-> TRUE]

\* Booking histories handed to the generator.  A booking at 00:00 of day d
\* with a quantity:
On(d, q) == [start_dt |-> Iso(Midnight(d)), status |-> "SUCCESS", quantity |-> q]

\* One unit on each of four consecutive Mondays.
FourMondays == <<On(-27, Some(1)), On(-20, Some(1)), On(-13, Some(1)), On(-6, Some(1))>>

\* Three days of different load, two of them on the same weekday.
Uneven == <<On(-13, Some(2)), On(-8, Some(1)), On(-1, Some(11))>>

\* Quantities that are absent, zero or negative.
OddQuantities == <<On(-3, Null), On(-2, Some(0)), On(-2, Some(-1))>>

Upcoming == [start_dt |-> Iso(Midnight(4)), status |-> "REQUEST", quantity |-> Some(3)]
Undated == [start_dt |-> DtMissing, status |-> "REQUEST", quantity |-> Some(1)]
Unparsed == [start_dt |-> DtInvalid, status |-> "REQUEST", quantity |-> Some(1)]

Histories ==
  {<<>>, FourMondays, Uneven, OddQuantities,
   <<TodayNoon>>, <<PastTwo, TodayNoon>>, <<PastTwo, PastCancelled>>,
   <<On(-1, Some(2)), On(0, Some(2))>>, <<On(0, Some(1))>>,
   <<Upcoming, PastTwo>>, <<Undated, Unparsed>>}

\* options: horizonDays left out, zero, negative or positive; smoothingFactor
\* left out, inside or above [0, 1].
OptionInputs ==
  [horizonDays : {Null, Some(-1), Some(0), Some(3)},
   smoothingFactor : {Null, Some(<<1, 2>>), Some(<<2, 1>>)}]

\* A caller holding a history and options before its first call.
InitForecast ==
  /\ Constructed
  /\ clock = 0
  /\ \E h \in Histories, o \in OptionInputs :
       calc = [bookings |-> h, options |-> o, last |-> Null, earlier |-> Null]

\* A call of generateBusyDayForecast with the caller's arguments.
Generate ==
  /\ calc' = [calc EXCEPT
       !.earlier = calc.last,
       !.last = Some(generateBusyDayForecast(calc.bookings, calc.options, clock))]
  /\ UNCHANGED <<clock, backend>>

\* Half a day passes.
BrowserTick ==
  /\ clock < MaxBrowserClock
  /\ clock' = clock + 1
  /\ UNCHANGED <<calc, backend>>

\* buildBookingsSignature without the status filter: cancelled bookings are
\* part of the signature.
buildBookingsSignatureWithCancelled(list) ==
  LET kept == {i \in 1..Len(list) : list[i].start_dt.tag # "missing"}
      Key(b) == [date |-> IF b.start_dt.tag = "iso"
                            THEN Some(isoDateOnly(b.start_dt.ms)) ELSE Null,
                 quantity |-> Increment(b)]
      keys == {Key(list[i]) : i \in kept}
  IN [k \in keys |-> Cardinality({i \in kept : Key(list[i]) = k})]

\* buildBookingsSignature: the sorted date:quantity strings of the bookings
\* that have a start_dt and are not cancelled, i.e. their multiset.
buildBookingsSignature(list) ==
  LET kept == {i \in 1..Len(list) :
                 list[i].start_dt.tag # "missing" /\ list[i].status # "CANCEL"}
      Key(b) == [date |-> IF b.start_dt.tag = "iso"
                            THEN Some(isoDateOnly(b.start_dt.ms)) ELSE Null,
                 quantity |-> Increment(b)]
      keys == {Key(list[i]) : i \in kept}
  IN [k \in keys |-> Cardinality({i \in kept : Key(list[i]) = k})]

\* What the remote fetch may reject with: an Error with a message (network
\* failure, the HTML of a 404, a JSON parse failure, an empty message) or a
\* value that is neither an Error nor a string.
FetchErrors ==
  {[isError |-> TRUE, message |-> "Failed to fetch"],
   [isError |-> TRUE, message |-> "<pre>Cannot GET /api/analytics/busy-days</pre>"],
   [isError |-> TRUE, message |-> "Unexpected token < in JSON at position 0"],
   [isError |-> TRUE, message |-> ""],
   [isError |-> FALSE, message |-> ""]}

\* raw.replace(/<[^>]*>/g, " ").replace(/\s+/g, " ").trim() on those messages.
StripTags(raw) ==
  IF raw = "<pre>Cannot GET /api/analytics/busy-days</pre>"
    THEN "Cannot GET /api/analytics/busy-days"
    ELSE raw

normalizeErrorMessage(error, fallback) ==
  LET raw == IF error.isError THEN error.message ELSE "" IN
    IF raw = "" THEN fallback
    ELSE IF StripTags(raw) = "" THEN fallback
    ELSE StripTags(raw)

friendlyAnalyticsError(message) ==
  IF message = "Cannot GET /api/analytics/busy-days"
    THEN "Analytics forecast endpoint unavailable."
    ELSE message

\* fallbackForecastNote with both branches returning the empty string.
fallbackForecastNoteEmpty(hasBookings) == ""

fallbackForecastNote(hasBookings) ==
  IF hasBookings
    THEN "Using local moving-average forecast because the analytics endpoint is unavailable."
    ELSE "Analytics forecast endpoint unavailable. Showing a local baseline until bookings are recorded."

\* What getBusyDayForecast may resolve with: a forecast of the analytics
\* endpoint, with or without notes and a usingFallback tag.
RemoteForecasts ==
  {[generated_at |-> Null, horizon_days |-> FORECAST_HORIZON_DAYS,
    model |-> "remote", points |-> <<>>, notes |-> n, usingFallback |-> u] :
     n \in {Null, Some("remote note")}, u \in {Null, Some(TRUE)}}

\* { horizonDays: FORECAST_HORIZON_DAYS }.
PageOptions == [horizonDays |-> Some(FORECAST_HORIZON_DAYS), smoothingFactor |-> Null]

\* generateBusyDayForecast(list, { horizonDays: FORECAST_HORIZON_DAYS }) for
\* every list the page can hold and every reading of the browser's clock,
\* computed once.
pageForecasts ==
  [list \in BookingLists |->
     [clk \in 0..MaxBrowserClock |-> generateBusyDayForecast(list, PageOptions, clk)]]

\* setTab.
SelectTab(t) ==
  /\ t # page.tab
  /\ page' = [page EXCEPT !.tab = t]
  /\ UNCHANGED server

\* refreshBookings up to its await, started by the effect that loads the
\* list while it is empty or by the dashboard's refresh button.
RefreshBookings ==
  /\ ~page.loadingBk
  /\ \/ page.tab \in {"APPROVALS", "DASHBOARD"} /\ Len(page.bookings) = 0
     \/ page.tab = "DASHBOARD"
  /\ page' = [page EXCEPT !.loadingBk = TRUE, !.bkErr = Null]
  /\ UNCHANGED server

\* refreshBookings after listBookings resolved.
BookingsLoaded(rows) ==
  /\ page.loadingBk
  /\ page' = [page EXCEPT !.bookings = rows, !.loadingBk = FALSE]
  /\ UNCHANGED server

\* refreshBookings after listBookings rejected.
BookingsFailed(error) ==
  /\ page.loadingBk
  /\ page' = [page EXCEPT
       !.bkErr = Some(normalizeErrorMessage(error, "Failed to load bookings")),
       !.loadingBk = FALSE]
  /\ UNCHANGED server

\* loadForecast up to its await; the callback closes over the booking list
\* of the render that made it.
loadForecast ==
  /\ page' = [page EXCEPT !.loadingForecast = TRUE, !.forecastErr = Null,
                           !.forecastNote = Null, !.captured = Some(page.bookings)]
  /\ UNCHANGED server

\* The effect that loads the forecast the first time the dashboard shows.
AutoLoad ==
  /\ page.tab = "DASHBOARD"
  /\ ~page.loadingForecast
  /\ page.forecast = Null
  /\ ~page.forecastAttempted
  /\ loadForecast

\* The effect that loads again when an attempt left no forecast and
\* bookings are there.
RetryLoad ==
  /\ page.tab = "DASHBOARD"
  /\ page.forecastAttempted
  /\ page.forecast = Null
  /\ ~page.loadingForecast
  /\ Len(page.bookings) # 0
  /\ loadForecast

\* handleForecastRefresh: the card's button, shown on the dashboard once the
\* card is shown and disabled while loading.
handleForecastRefresh ==
  /\ page.tab = "DASHBOARD"
  /\ page.loadingForecast \/ page.forecastAttempted \/ page.forecast # Null
  /\ ~page.loadingForecast
  /\ loadForecast

\* loadForecast after getBusyDayForecast resolved: the try block and finally.
LoadForecastResolve(res) ==
  /\ page.captured # Null
  /\ page' = [page EXCEPT
       !.forecast = Some([res EXCEPT !.usingFallback =
                            IF res.usingFallback = Null THEN FALSE
                            ELSE Val(res.usingFallback)]),
       !.fallbackSignature = Null,
       !.forecastNote = IF res.notes # Null THEN res.notes ELSE @,
       !.loadingForecast = FALSE,
       !.forecastAttempted = TRUE,
       !.captured = Null]
  /\ UNCHANGED server

\* loadForecast after getBusyDayForecast rejected, the catch block without
\* its setForecast(fallback) and setFallbackSignature.
LoadForecastRejectNoFallback(error) ==
  /\ page.captured # Null
  /\ LET list == Val(page.captured)
         message == normalizeErrorMessage(error, "Unable to fetch forecast")
         hasBookings == Len(list) > 0
     IN page' = [page EXCEPT
          !.forecastNote = Some(fallbackForecastNote(hasBookings)),
          !.forecastErr = IF hasBookings THEN Some(friendlyAnalyticsError(message))
                          ELSE Null,
          !.loadingForecast = FALSE,
          !.forecastAttempted = TRUE,
          !.captured = Null]
  /\ UNCHANGED server

\* loadForecast after getBusyDayForecast rejected: the catch block and
\* finally.
LoadForecastReject(error) ==
  /\ page.captured # Null
  /\ LET list == Val(page.captured)
         message == normalizeErrorMessage(error, "Unable to fetch forecast")
         hasBookings == Len(list) > 0
     IN page' = [page EXCEPT
          !.forecast = Some(pageForecasts[list][clock]),
          !.forecastNote = Some(fallbackForecastNote(hasBookings)),
          !.forecastErr = IF hasBookings THEN Some(friendlyAnalyticsError(message))
                          ELSE Null,
          !.fallbackSignature = Some(buildBookingsSignature(list)),
          !.loadingForecast = FALSE,
          !.forecastAttempted = TRUE,
          !.captured = Null]
  /\ UNCHANGED server

\* The RecomputeFallback effect without its setFallbackSignature.
RecomputeFallbackNoSignature ==
  /\ page.forecast # Null
  /\ Val(page.forecast).usingFallback
  /\ Some(buildBookingsSignature(page.bookings)) # page.fallbackSignature
  /\ page' = [page EXCEPT
       !.forecast = Some(pageForecasts[page.bookings][clock])]
  /\ UNCHANGED server

\* The effect that regenerates a fallback forecast when the booking list's
\* signature differs from the one it was made from.
RecomputeFallback ==
  /\ page.forecast # Null
  /\ Val(page.forecast).usingFallback
  /\ Some(buildBookingsSignature(page.bookings)) # page.fallbackSignature
  /\ page' = [page EXCEPT
       !.fallbackSignature = Some(buildBookingsSignature(page.bookings)),
       !.forecast = Some(pageForecasts[page.bookings][clock])]
  /\ UNCHANGED server

\* ----------------------------------------------- the effects of the page
\* The displayed forecast is a fallback.
FallbackShown == page.forecast # Null /\ Val(page.forecast).usingFallback

\* The recompute effect has work to do: the displayed fallback was not made
\* from a list with the signature of the current one.
RecomputeDue ==
  FallbackShown /\ Some(buildBookingsSignature(page.bookings)) # page.fallbackSignature

\* The guards of the page's effects: the lazy load of the booking list, the
\* first forecast load, the load after an attempt that left no forecast.
LazyLoadDue ==
  page.tab \in {"APPROVALS", "DASHBOARD"} /\ Len(page.bookings) = 0 /\ ~page.loadingBk

AutoLoadDue ==
  /\ page.tab = "DASHBOARD"
  /\ ~page.loadingForecast
  /\ page.forecast = Null
  /\ ~page.forecastAttempted

RetryLoadDue ==
  /\ page.tab = "DASHBOARD"
  /\ page.forecastAttempted
  /\ page.forecast = Null
  /\ ~page.loadingForecast
  /\ Len(page.bookings) # 0

\* No effect of the page is pending: every effect has run to its return.
Quiescent == ~LazyLoadDue /\ ~AutoLoadDue /\ ~RetryLoadDue /\ ~RecomputeDue

\* ----------------------------------------------------------- specifications
\* Requests answered one at a time, all within one reading of the clock.
Next ==
  \/ \E req \in Requests : Submit(req)
  \/ \E op \in Ops, id \in IdInputs : Transition(op, id)

Spec == Init /\ [][Next]_vars

\* Requests answered one at a time while the clock advances; one window of
\* one resource.
ClockRequests == {BaseRequest}

NextClock ==
  \/ \E req \in ClockRequests : Submit(req)
  \/ \E op \in Ops, id \in IdInputs : Transition(op, id)
  \/ Tick

SpecClock == Init /\ [][NextClock]_vars

\* Requests answered one at a time: bodies that differ in quantity and in
\* the resource they name.
NextIntake ==
  \/ \E req \in IntakeRequests : Submit(req)
  \/ \E role \in Roles, op \in Ops, id \in IdInputs : TransitionAs(role, op, id)

SpecIntake == Init /\ [][NextIntake]_vars

\* The token-authenticated API, requests answered one at a time.
NextToken ==
  \/ \E user \in Users, body \in TokenBodies : CreateBooking(user, body)
  \/ \E user \in Users, id \in IdInputs : CancelBooking(user, id)
  \/ \E user \in Users, id \in IdInputs, status \in StatusInputs :
       UpdateBookingStatus(user, id, status)

SpecToken == Init /\ [][NextToken]_vars

\* The admin page: user events, effects and the completion of its fetches.
\* RetryLoad is not among them: every completed load leaves a forecast, so
\* its guard is false in every reachable state (RetryLoadNeverEnabled).
NextPage ==
  \/ \E t \in Tabs : SelectTab(t)
  \/ RefreshBookings
  \/ \E rows \in BookingLists : BookingsLoaded(rows)
  \/ \E error \in FetchErrors : BookingsFailed(error)
  \/ AutoLoad
  \/ handleForecastRefresh
  \/ \E res \in RemoteForecasts : LoadForecastResolve(res)
  \/ \E error \in FetchErrors : LoadForecastReject(error)
  \/ RecomputeFallback

SpecPage == Init /\ [][NextPage]_vars

RetryLoadNeverEnabled == ~ENABLED RetryLoad

\* The admin page as the renderer schedules it: the effects of a render run
\* before the next event is handled, so a user event or the completion of a
\* fetch is taken only when no effect is pending. An effect that is due
\* runs (weak fairness: nothing but the effect itself ends its being due
\* before it runs), and a fetch in flight resolves or rejects however often
\* an effect holds it up for a moment (strong fairness); the user owes
\* nothing.
LazyLoad == LazyLoadDue /\ RefreshBookings

NextPageScheduled ==
  \/ LazyLoad
  \/ AutoLoad
  \/ RecomputeFallback
  \/ Quiescent /\ \E t \in Tabs : SelectTab(t)
  \/ Quiescent /\ RefreshBookings
  \/ Quiescent /\ handleForecastRefresh
  \/ Quiescent /\ \E rows \in BookingLists : BookingsLoaded(rows)
  \/ Quiescent /\ \E error \in FetchErrors : BookingsFailed(error)
  \/ Quiescent /\ \E res \in RemoteForecasts : LoadForecastResolve(res)
  \/ Quiescent /\ \E error \in FetchErrors : LoadForecastReject(error)

ForecastFetchSettles ==
  Quiescent /\ (\/ \E res \in RemoteForecasts : LoadForecastResolve(res)
                \/ \E error \in FetchErrors : LoadForecastReject(error))

BookingsFetchSettles ==
  Quiescent /\ (\/ \E rows \in BookingLists : BookingsLoaded(rows)
                \/ \E error \in FetchErrors : BookingsFailed(error))

SpecPageScheduled ==
  /\ Init
  /\ [][NextPageScheduled]_vars
  /\ WF_vars(LazyLoad)
  /\ WF_vars(AutoLoad)
  /\ WF_vars(RecomputeFallback)
  /\ SF_vars(ForecastFetchSettles)
  /\ SF_vars(BookingsFetchSettles)

\* The client app: bookings made from the drawer and status changes made
\* from the booking list.
NextClient ==
  \/ \E req \in DrawerRequests : createBookingFromDrawer(req)
  \/ \E op \in Ops, id \in IdInputs : Transition(op, id)

SpecClient == Init /\ [][NextClient]_vars

\* Calls of the forecast generator with fixed arguments while time passes.
NextForecast ==
  \/ Generate
  \/ BrowserTick

SpecForecast == InitForecast /\ [][NextForecast]_vars

\* Handlers in flight together, interleaved statement by statement; one
\* window of one resource, transitions of the first booking.
ConcRequests == ClockRequests
ConcIds == {1}

NextConc ==
  \/ \E p \in Procs, req \in ConcRequests : SubmitCheck(p, req)
  \/ \E p \in Procs : SubmitInsert(p)
  \/ \E p \in Procs, op \in Ops, id \in ConcIds : Receive(p, op, id)
  \/ \E p \in Procs : Update(p)
  \/ \E p \in Procs : Reply(p)

SpecConc == Init /\ [][NextConc]_vars

\* ------------------------------------------------------------------ claims
Active(row) == row.status \in {"REQUEST", "ONGOING"}

\* The instants of the half-open window [s, e).
Window(s, e) == {t \in Times : s <= t /\ t < e}

\* The units a row asks for; a row without a quantity asks for one.
Units(row) == IF row.quantity = Null THEN 1 ELSE Val(row.quantity)

RECURSIVE SumUnits(_, _)
SumUnits(bks, ids) ==
  IF ids = {} THEN 0
  ELSE LET i == CHOOSE x \in ids : TRUE
       IN Units(bks[i]) + SumUnits(bks, ids \ {i})

\* The active rows of resource rid that hold instant t.
HoldersAt(bks, rid, t) ==
  {i \in DOMAIN bks : /\ Active(bks[i])
                      /\ bks[i].resource_id = rid
                      /\ t \in Window(bks[i].start_dt, bks[i].end_dt)}

\* The active rows of resource rid whose window shares an instant with [s, e).
HoldersIn(bks, rid, s, e) ==
  {i \in DOMAIN bks : /\ Active(bks[i])
                      /\ bks[i].resource_id = rid
                      /\ Window(s, e) \cap Window(bks[i].start_dt, bks[i].end_dt) # {}}

\* C1: with requests served one at a time, at every instant the units held
\* by a resource's REQUEST/ONGOING bookings never exceed its quantity.
C1_CapacityInvariant ==
  \A rid \in DOMAIN Catalog, t \in Times :
    SumUnits(bookings, HoldersAt(bookings, rid, t)) <= Catalog[rid].quantity

\* C2: two submits in flight together for overlapping windows of one
\* resource that jointly exceed its quantity are never both inserted.  Two
\* such rows still in REQUEST can only come from submits that both passed
\* the conflict SELECT before either INSERT ran.
C2_NoJointAdmission ==
  \A i \in DOMAIN bookings, j \in DOMAIN bookings :
    ~ /\ i < j
      /\ bookings[i].status = "REQUEST" /\ bookings[j].status = "REQUEST"
      /\ bookings[i].resource_id = bookings[j].resource_id
      /\ Window(bookings[i].start_dt, bookings[i].end_dt)
           \cap Window(bookings[j].start_dt, bookings[j].end_dt) # {}
      /\ bookings[i].resource_id \in DOMAIN Catalog
      /\ Units(bookings[i]) + Units(bookings[j])
           > Catalog[bookings[i].resource_id].quantity

\* C3: a submit with end > start and quantity >= 1 for a catalog resource
\* under its own kind is answered 409 exactly when the units held over the
\* requested window plus the requested quantity exceed the resource's quantity
\* (stated for tables in which every booking carries its quantity).
C3_QuantityAwareConflict ==
  [][\A req \in Requests :
       ( /\ Submit(req)
         /\ Validate(req) = ""
         /\ req.quantity # Null /\ Val(req.quantity) >= 1
         /\ req.resource_id \in DOMAIN Catalog
         /\ Catalog[req.resource_id].kind = ToUpper(req.kind)
         /\ \A i \in DOMAIN bookings : bookings[i].quantity # Null )
       => (resp'.code = 409 <=>
             SumUnits(bookings, HoldersIn(bookings, req.resource_id,
                                          req.start_dt.ms, req.end_dt.ms))
               + Val(req.quantity) > Catalog[req.resource_id].quantity)]_vars

\* C4: a submit that passes validation is answered 409 exactly when some
\* active booking of the same kind and resource shares an instant with the
\* requested half-open window; windows that only meet at an endpoint do not
\* conflict, equal windows do.
C4_HalfOpenAdmission ==
  \A req \in Requests :
    Validate(req) = ""
      => (SubmitResult(bookings, seq, now, req).resp.code = 409 <=>
            \E i \in DOMAIN bookings :
              /\ Active(bookings[i])
              /\ bookings[i].kind = ToUpper(req.kind)
              /\ bookings[i].resource_id = req.resource_id
              /\ Window(req.start_dt.ms, req.end_dt.ms)
                   \cap Window(bookings[i].start_dt, bookings[i].end_dt) # {})

\* C4 witness: on the single-unit vehicle, a booking whose window starts where
\* an active booking's window ends has just been admitted.
C4_AdjacentAdmitted ==
  /\ resp.code = 201
  /\ seq \in DOMAIN bookings
  /\ \E i \in DOMAIN bookings :
       /\ i # seq
       /\ Active(bookings[i])
       /\ bookings[i].resource_id = 1 /\ bookings[seq].resource_id = 1
       /\ bookings[i].kind = bookings[seq].kind
       /\ bookings[seq].start_dt = bookings[i].end_dt

\* The transitions of the booking state machine.
Allowed ==
  {<<"REQUEST", "start">>, <<"REQUEST", "cancel">>,
   <<"ONGOING", "cancel">>, <<"ONGOING", "finish">>}

\* C5: start, finish and cancel succeed exactly for the pairs of Allowed;
\* for every other (status, operation) the call fails and the row is unchanged.
C5_StateMachine ==
  [][\A op \in Ops, id \in DOMAIN bookings :
       Transition(op, id)
         => IF <<bookings[id].status, op>> \in Allowed
              THEN resp'.code = 200
              ELSE resp'.code # 200 /\ bookings' = bookings]_vars

\* C6: a booking in SUCCESS or CANCEL keeps that status forever.
C6_TerminalIsFinal ==
  [][\A id \in DOMAIN bookings :
       bookings[id].status \in {"SUCCESS", "CANCEL"}
         => bookings'[id].status = bookings[id].status]_vars

\* C7: start on a booking that one start already moved from REQUEST to
\* ONGOING fails and leaves the booking as it was.
C7_SecondStartRejected ==
  [][\A id \in DOMAIN bookings :
       ( /\ Transition("start", id)
         /\ bookings[id].status = "ONGOING"
         /\ bookings[id].ended_at = Null /\ bookings[id].canceled_at = Null )
       => resp'.code # 200 /\ bookings'[id] = bookings[id]]_vars

\* The status a timestamp column belongs to.
StatusOf(f) ==
  CASE f = "started_at" -> "ONGOING"
    [] f = "ended_at" -> "SUCCESS"
    [] f = "canceled_at" -> "CANCEL"

\* C8: started_at, ended_at and canceled_at change only from unset to set,
\* in the step in which the booking enters ONGOING, SUCCESS and CANCEL.
C8_TimestampsWrittenOnce ==
  [][\A id \in DOMAIN bookings, f \in {"started_at", "ended_at", "canceled_at"} :
       bookings'[id][f] # bookings[id][f]
         => /\ bookings[id][f] = Null
            /\ bookings[id].status # StatusOf(f)
            /\ bookings'[id].status = StatusOf(f)]_vars

\* C9: when a finish and a cancel of one booking were both received while
\* it was ONGOING and both UPDATEs have run, exactly one of the two was
\* answered 200 and the booking does not carry both ended_at and canceled_at.
C9_RaceHasOneWinner ==
  \A p \in Procs, q \in Procs :
    ( /\ pc[p] = "reply" /\ pc[q] = "reply"
      /\ held[p].op = "finish" /\ held[q].op = "cancel"
      /\ held[p].id = held[q].id
      /\ held[p].seen = "ONGOING" /\ held[q].seen = "ONGOING" )
    => /\ (result[p].code = 200) # (result[q].code = 200)
       /\ ~ ( /\ bookings[held[p].id].ended_at # Null
              /\ bookings[held[p].id].canceled_at # Null )

\* C10: a submit with every field present and parseable whose end is not
\* after its start is answered 400 "End time must be after start time", not
\* 409, and stores nothing, whatever the table holds.
C10_InvalidTimeRange ==
  \A req \in Requests :
    ( /\ ParseDate(req.start_dt) # Null /\ ParseDate(req.end_dt) # Null
      /\ req.kind # "" /\ req.resource_id # 0 /\ req.resource_name # ""
      /\ req.end_dt.ms <= req.start_dt.ms )
    => LET out == SubmitResult(bookings, seq, now, req) IN
         /\ out.resp = Respond(400, "End time must be after start time")
         /\ out.bookings = bookings
         /\ out.seq = seq

\* C10 witness: a window that ends at or before its start, and overlaps
\* nothing or something, has just been refused while bookings are held.
C10_RefusedWhileBooked ==
  /\ resp = Respond(400, "End time must be after start time")
  /\ \E i \in DOMAIN bookings : Active(bookings[i])

\* C11: a submit that supplies a quantity below 1 is refused and stores
\* nothing, so no stored booking carries a quantity below 1.
C11_StoredQuantityPositive ==
  \A i \in DOMAIN bookings :
    bookings[i].quantity # Null => Val(bookings[i].quantity) >= 1

\* C12: a submit naming a resource that has no row, is of another kind than
\* the request, or is not Available, fails and stores nothing.
C12_ResourceUnavailable ==
  [][\A req \in IntakeRequests :
       ( /\ Submit(req)
         /\ \/ req.resource_id \notin DOMAIN Catalog
            \/ Catalog[req.resource_id].kind # ToUpper(req.kind)
            \/ Catalog[req.resource_id].status # "Available" )
       => resp'.code \notin {200, 201} /\ bookings' = bookings]_vars

\* The callers the role gate lets change things: ADMIN and STAFF.
Authorized(role) == requireRole({"ADMIN", "STAFF"}, role)

\* C13: start, finish and cancel by a caller who is not authorized are
\* answered 403 and leave the booking as it was, whatever its status.
C13_Forbidden ==
  [][\A role \in Roles, op \in Ops, id \in DOMAIN bookings :
       (TransitionAs(role, op, id) /\ ~Authorized(role))
         => resp'.code = 403 /\ bookings' = bookings]_vars

\* C14: POST /bookings/:id/cancel succeeds for the booking's owner and for
\* callers with role ADMIN or STAFF; for every other caller it answers 403
\* and leaves the booking unchanged.
C14_CancelOwnerOrStaff ==
  [][\A user \in Users, id \in DOMAIN tbookings :
       CancelBooking(user, id)
         => IF tbookings[id].userId = user.id \/ user.role \in {"ADMIN", "STAFF"}
              THEN resp'.code = 200 /\ tbookings'[id].status = "CANCELLED"
              ELSE resp'.code = 403 /\ tbookings' = tbookings]_vars

C16_CreatedInRequest ==
  [][\A id \in DOMAIN bookings' \ DOMAIN bookings :
       /\ bookings'[id].status = "REQUEST"
       /\ bookings'[id].started_at = Null
       /\ bookings'[id].ended_at = Null
       /\ bookings'[id].canceled_at = Null
       /\ \A i \in DOMAIN bookings : bookings'[i] = bookings[i]]_vars

\* C16 witness: a booking has just been created in REQUEST after an earlier
\* one left REQUEST.
C16_SecondCreated ==
  /\ resp.code = 201
  /\ seq \in DOMAIN bookings
  /\ bookings[seq].status = "REQUEST"
  /\ bookings[seq].started_at = Null
  /\ \E i \in DOMAIN bookings : i # seq /\ bookings[i].status # "REQUEST"

\* C17: a validated submit is answered 409 exactly when a REQUEST or ONGOING
\* booking of the same kind and resource_id starts before the requested end
\* and ends after the requested start; the answer is the same whatever
\* quantity the request carries.
C17_OverlapAloneDecides ==
  \A req \in IntakeRequests :
    Validate(req) = ""
      => LET denied == SubmitResult(bookings, seq, now, req).resp.code = 409 IN
           /\ denied <=>
                \E i \in DOMAIN bookings :
                  /\ bookings[i].status \in {"REQUEST", "ONGOING"}
                  /\ bookings[i].kind = ToUpper(req.kind)
                  /\ bookings[i].resource_id = req.resource_id
                  /\ bookings[i].start_dt < req.end_dt.ms
                  /\ req.start_dt.ms < bookings[i].end_dt
           /\ \A q \in {Null, Some(-1), Some(0), Some(1), Some(2)} :
                denied <=>
                  CheckResponse(bookings, [req EXCEPT !.quantity = q]).code = 409

\* C17 witness: a 409 has just been answered for the two-unit equipment
\* while a single booking of one unit is all the table holds.
C17_DeniedWithUnitFree ==
  /\ resp.code = 409
  /\ DOMAIN bookings = {1}
  /\ bookings[1].resource_id = 2
  /\ bookings[1].quantity = Some(1)
  /\ Active(bookings[1])

\* C18: a validated submit for a catalog resource whose window overlaps
\* bookings of its kind and resource, all of them in SUCCESS or CANCEL, is
\* admitted: finished and cancelled bookings hold no capacity.
C18_EndedHoldNothing ==
  \A req \in Requests :
    LET over == {i \in DOMAIN bookings :
                   /\ bookings[i].kind = ToUpper(req.kind)
                   /\ bookings[i].resource_id = req.resource_id
                   /\ Window(req.start_dt.ms, req.end_dt.ms)
                        \cap Window(bookings[i].start_dt, bookings[i].end_dt) # {}}
    IN ( /\ Validate(req) = ""
         /\ req.resource_id \in DOMAIN Catalog
         /\ over # {}
         /\ \A i \in over : bookings[i].status \in {"SUCCESS", "CANCEL"} )
       => LET out == SubmitResult(bookings, seq, now, req) IN
            /\ out.resp.code = 201
            /\ out.seq \in DOMAIN out.bookings

\* C18 witness: a booking has just been admitted over the window of a
\* finished or cancelled booking of the same resource.
C18_AdmittedOverEnded ==
  /\ resp.code = 201
  /\ seq \in DOMAIN bookings
  /\ \E i \in DOMAIN bookings :
       /\ i # seq
       /\ bookings[i].status \in {"SUCCESS", "CANCEL"}
       /\ bookings[i].kind = bookings[seq].kind
       /\ bookings[i].resource_id = bookings[seq].resource_id
       /\ Window(bookings[i].start_dt, bookings[i].end_dt)
            \cap Window(bookings[seq].start_dt, bookings[seq].end_dt) # {}

\* C19: a submit that leaves quantity out asks for one unit: it is answered
\* 409 exactly when the units held over its window plus one exceed the
\* resource's quantity, a stored booking without a quantity counting as one
\* unit (stated for tables whose stored quantities are absent or >= 1).
C19_OmittedCountsAsOne ==
  [][\A req \in IntakeRequests :
       ( /\ Submit(req)
         /\ Validate(req) = ""
         /\ req.quantity = Null
         /\ req.resource_id \in DOMAIN Catalog
         /\ Catalog[req.resource_id].kind = ToUpper(req.kind)
         /\ \A i \in DOMAIN bookings : Units(bookings[i]) >= 1 )
       => (resp'.code = 409 <=>
             SumUnits(bookings, HoldersIn(bookings, req.resource_id,
                                          req.start_dt.ms, req.end_dt.ms))
               + 1 > Catalog[req.resource_id].quantity)]_vars

\* C20: whatever the remote fetch rejects with, the load ends in the same
\* step with the forecast generated locally from the booking list the load
\* started with, tagged usingFallback, a non-empty note set and the loading
\* flag cleared.
C20_FallbackOnFailure ==
  [][\A error \in FetchErrors :
       LoadForecastReject(error)
         => /\ page'.forecast =
                 Some(generateBusyDayForecast(Val(page.captured), PageOptions, clock))
            /\ Val(page'.forecast).usingFallback = TRUE
            /\ Val(page'.forecast).model = "weekday-ema"
            /\ page'.forecastNote # Null
            /\ Val(page'.forecastNote) # ""
            /\ ~page'.loadingForecast
            /\ page'.forecastAttempted
            /\ page'.captured = Null]_vars

\* C20 witness: a load that failed has left a fallback forecast with its
\* note on a page that holds bookings.
C20_FallbackShown ==
  /\ page.forecast # Null
  /\ Val(page.forecast).usingFallback
  /\ Val(page.forecast).model = "weekday-ema"
  /\ page.forecastNote =
       Some("Using local moving-average forecast because the analytics endpoint is unavailable.")
  /\ page.forecastErr # Null
  /\ ~page.loadingForecast

\* ------------------------------------------------------ the forecast generator
\* C21: two calls of generateBusyDayForecast with the same bookings,
\* horizonDays and smoothingFactor return the same output in every field,
\* whenever each call is made.
C21_SameArgumentsSameOutput ==
  (calc.last # Null /\ calc.earlier # Null) => calc.last = calc.earlier

\* The history buckets as dated: per UTC day not after today's date, the
\* increments of the bookings that start on it and are not cancelled.
DatedBuckets(list, clk) ==
  LET counted == {i \in 1..Len(list) :
                    /\ list[i].start_dt.tag = "iso"
                    /\ list[i].status # "CANCEL"
                    /\ isoDateOnly(list[i].start_dt.ms) <= Today(clk)}
      days == {isoDateOnly(list[i].start_dt.ms) : i \in counted}
  IN [d \in days |->
        SumIncrements(list, {i \in counted : isoDateOnly(list[i].start_dt.ms) = d})]

\* The smoothing factor a call with these options uses.
SmoothingOf(options) ==
  IF options.smoothingFactor = Null THEN DefaultSmoothing
  ELSE Val(options.smoothingFactor)

\* C22: the points of a call are those of the history bucketed by date: the
\* bookings that are not cancelled and start, at any time of day, on a UTC
\* date not after today's.
C22_HistoryByDate ==
  (calc.last # Null /\ Val(calc.last).generated_at = Some(clock)) =>
    \A i \in DOMAIN Val(calc.last).points :
      Val(calc.last).points[i] =
        ForecastPoint(DatedBuckets(calc.bookings, clock),
                      SmoothingOf(calc.options), Today(clock), i)

\* C23: a call with horizonDays = n > 0 returns exactly n points, the i-th
\* dated today + i (today being the UTC day of the call), so the dates are
\* the days today+1 .. today+n in strictly increasing order.
C23_OnePointPerDay ==
  (calc.last # Null /\ calc.options.horizonDays # Null
     /\ Val(calc.options.horizonDays) > 0) =>
    LET points == Val(calc.last).points
        n == Val(calc.options.horizonDays)
        today == Today(Val(Val(calc.last).generated_at))
    IN /\ Len(points) = n
       /\ \A i \in 1..n : points[i].date = today + i
       /\ \A i \in 1..(n - 1) : points[i].date < points[i + 1].date

\* C23 witness: a call made on day 1 with horizonDays 3 has returned the
\* points of days 2, 3 and 4.
C23_ThreeDaysAhead ==
  /\ calc.last # Null
  /\ calc.options.horizonDays = Some(3)
  /\ Val(calc.last).generated_at = Some(2)
  /\ Len(Val(calc.last).points) = 3
  /\ Val(calc.last).points[3].date = 4

\* C24: in every returned point the label is BUSY exactly when the
\* busyProbability the point carries is >= 0.6, QUIET exactly when it is
\* <= 0.4, and NORMAL otherwise.
C24_LabelMatchesEmitted ==
  calc.last # Null =>
    \A i \in DOMAIN Val(calc.last).points :
      LET point == Val(calc.last).points[i] IN
        \A v \in point.busyProbability.lo .. point.busyProbability.hi :
          point.label = IF v >= 600 THEN "BUSY"
                        ELSE IF v <= 400 THEN "QUIET"
                        ELSE "NORMAL"

\* C25: every returned point has expectedBookings >= 0 and a busyProbability
\* within [0, 1], whatever the history: empty, or with quantities that are
\* absent, zero or negative.
C25_PointsInRange ==
  calc.last # Null =>
    \A i \in DOMAIN Val(calc.last).points :
      LET point == Val(calc.last).points[i] IN
        /\ point.expectedBookings >= 0
        /\ 0 <= point.busyProbability.lo
        /\ point.busyProbability.lo <= point.busyProbability.hi
        /\ point.busyProbability.hi <= 1000

\* C25 witness: points have been returned for a history whose quantities are
\* absent, zero and negative.
C25_OddQuantitiesForecast ==
  /\ calc.last # Null
  /\ calc.bookings = OddQuantities
  /\ Len(Val(calc.last).points) > 0
  /\ \E i \in DOMAIN Val(calc.last).points :
       Val(calc.last).points[i].expectedBookings > 0

\* The buckets the call that returned calc.last worked from.
BucketsOfLast == CountsByDay(calc.bookings, Val(Val(calc.last).generated_at))

\* All buckets hold the same value (or there is none): the population
\* standard deviation of the bucket values is zero.
Flat(counts) == \A d \in DOMAIN counts, e \in DOMAIN counts : counts[d] = counts[e]

\* The value every bucket of a flat history holds, which is its mean; 0 for
\* an empty history.
Level(counts) ==
  IF DOMAIN counts = {} THEN 0 ELSE counts[CHOOSE d \in DOMAIN counts : TRUE]

\* C26: when the buckets have zero deviation, a point's busyProbability is
\* 0.65 if its expectedBookings exceed the overall mean, 0.2 if both are 0
\* and 0.45 otherwise; with an empty history every point has expectedBookings
\* 0, busyProbability 0.2 and label QUIET.
C26_FlatHistory ==
  (calc.last # Null /\ Flat(BucketsOfLast)) =>
    \A i \in DOMAIN Val(calc.last).points :
      LET point == Val(calc.last).points[i]
          level == <<Level(BucketsOfLast), 1>>
          expected == expectedBookings(BucketsOfLast, SmoothingOf(calc.options),
                                       point.date)
          p == IF RLess(level, expected) THEN 650
               ELSE IF level[1] = 0 /\ expected[1] = 0 THEN 200
               ELSE 450
      IN /\ point.busyProbability = [lo |-> p, hi |-> p]
         /\ DOMAIN BucketsOfLast = {} =>
              /\ point.expectedBookings = 0
              /\ point.busyProbability = [lo |-> 200, hi |-> 200]
              /\ point.label = "QUIET"

\* C26 witness: points have been returned for a history of equal buckets on
\* more than one day, each with busyProbability 0.45.
C26_EqualBucketsForecast ==
  /\ calc.last # Null
  /\ Flat(BucketsOfLast)
  /\ Cardinality(DOMAIN BucketsOfLast) > 1
  /\ Len(Val(calc.last).points) > 0
  /\ \A i \in DOMAIN Val(calc.last).points :
       Val(calc.last).points[i].busyProbability = [lo |-> 450, hi |-> 450]

\* The baseline of day d as stated: the mean bucket value of d's weekday when
\* that weekday has history, the overall mean otherwise.
StatedBaseline(counts, d) ==
  LET same == {x \in DOMAIN counts : Weekday(x) = Weekday(d)}
      all == DOMAIN counts
  IN IF same # {} THEN Rat(SumOver(counts, same), Cardinality(same))
     ELSE IF all # {} THEN Rat(SumOver(counts, all), Cardinality(all))
     ELSE <<0, 1>>

\* The expected bookings of day d as stated: the baseline, blended
\* 0.4 : 0.6 with the smoothed value of the date 7 days before d exactly
\* when that date has one, i.e. is a bucket.
StatedExpected(counts, alpha, d) ==
  IF (d - 7) \in DOMAIN counts
    THEN RAdd(RMul(<<2, 5>>, StatedBaseline(counts, d)),
              RMul(<<3, 5>>, exponentialMovingAverage(counts, alpha, d - 7)))
    ELSE StatedBaseline(counts, d)

\* C27: every returned point carries the stated expected bookings of its
\* day (weekday mean or overall mean, blended with the smoothed value of 7
\* days before when there is one), rounded to hundredths.  With one unit on
\* each of four consecutive Mondays and nothing else, Monday's average is 1,
\* no other weekday has one, and the points of other weekdays carry the
\* overall mean.
C27_BaselineAndBlend ==
  calc.last # Null =>
    /\ \A i \in DOMAIN Val(calc.last).points :
         LET point == Val(calc.last).points[i]
             stated == StatedExpected(BucketsOfLast, SmoothingOf(calc.options),
                                      point.date)
         IN /\ expectedBookings(BucketsOfLast, SmoothingOf(calc.options),
                                point.date) = stated
            /\ point.expectedBookings = ToFixed(stated, 100)
    /\ calc.bookings = FourMondays =>
         /\ getWeekdayAverages(BucketsOfLast)[1] = Some(<<1, 1>>)
         /\ \A w \in 0..6 : w # 1 => getWeekdayAverages(BucketsOfLast)[w] = Null
         /\ \A i \in DOMAIN Val(calc.last).points :
              Weekday(Val(calc.last).points[i].date) # 1 =>
                Val(calc.last).points[i].expectedBookings
                  = ToFixed(mean(BucketsOfLast), 100)

\* C27 witness: the forecast of the uneven history made on day 0 carries a
\* weekday mean (day 1: 2), the overall mean (day 2: 4.67) and a blend
\* (day 6: 0.4 * 6 + 0.6 * 4.49 = 5.09).
C27_ThreeBaselines ==
  /\ calc.last # Null
  /\ calc.bookings = Uneven
  /\ Len(Val(calc.last).points) = 14
  /\ Val(calc.last).points[1].expectedBookings = 200
  /\ Val(calc.last).points[2].expectedBookings = 467
  /\ Val(calc.last).points[6].expectedBookings = 509

\* ------------------------------------------------------------ the admin page
\* The content signature of a booking list: how many of its bookings that
\* are not cancelled fall on each pair of start date and quantity.
ContentSignature(list) ==
  LET live == {i \in 1..Len(list) : list[i].status # "CANCEL"}
      Pair(i) == <<isoDateOnly(list[i].start_dt.ms), Increment(list[i])>>
  IN [pr \in {Pair(i) : i \in live} |-> Cardinality({i \in live : Pair(i) = pr})]

\* C28: when the booking list changes while a fallback made from the old
\* list is displayed, the recompute becomes due exactly when the new list's
\* content signature differs from the old one's; the recompute runs only
\* when due and leaves the forecast generated from the current list.
C28_RecomputeOnNewSignature ==
  [][/\ (page.bookings' # page.bookings /\ FallbackShown /\ ~RecomputeDue) =>
          (RecomputeDue' <=>
             ContentSignature(page.bookings') # ContentSignature(page.bookings))
     /\ RecomputeFallback =>
          /\ RecomputeDue
          /\ ~RecomputeDue'
          /\ page'.forecast =
               Some(generateBusyDayForecast(page.bookings, PageOptions, clock))]_vars

\* C28 witness: a fallback made while no bookings were loaded has been
\* replaced by the forecast of the bookings loaded since.
C28_Recomputed ==
  /\ FallbackShown
  /\ ~RecomputeDue
  /\ page.forecastNote = Some(fallbackForecastNote(FALSE))
  /\ page.bookings = <<PastTwo>>
  /\ page.forecast = Some(generateBusyDayForecast(<<PastTwo>>, PageOptions, clock))

\* ---------------------------------------------------------------- the client
\* C29: with the client's list equal to the server's table, the drawer's
\* local pre-check reports a conflict for a request exactly when POST
\* /api/bookings would answer that request with 409.
C29_PreCheckAgrees ==
  [][\A req \in DrawerRequests :
       createBookingFromDrawer(req) =>
         (hasLocalConflict(bookings, req.kind, req.resource_id,
                           req.start_dt.ms, req.end_dt.ms)
            <=> SubmitResult(bookings, seq, now, req).resp.code = 409)]_vars

\* ------------------------------------------------------ booking lifecycle
\* C30: a booking in SUCCESS was ONGOING before, so it has started_at set.
C30_SuccessWasStarted ==
  \A id \in DOMAIN bookings :
    bookings[id].status = "SUCCESS" => bookings[id].started_at # Null

\* C31: the timestamps of every stored booking agree with its status:
\* REQUEST has started_at, ended_at and canceled_at unset; ONGOING has
\* started_at set and the other two unset; SUCCESS has started_at and
\* ended_at set and canceled_at unset; CANCEL has canceled_at set and
\* ended_at unset.
C31_TimestampsAgreeWithStatus ==
  \A id \in DOMAIN bookings :
    LET row == bookings[id] IN
      /\ row.status = "REQUEST" =>
           row.started_at = Null /\ row.ended_at = Null /\ row.canceled_at = Null
      /\ row.status = "ONGOING" =>
           row.started_at # Null /\ row.ended_at = Null /\ row.canceled_at = Null
      /\ row.status = "SUCCESS" =>
           row.started_at # Null /\ row.ended_at # Null /\ row.canceled_at = Null
      /\ row.status = "CANCEL" =>
           row.canceled_at # Null /\ row.ended_at = Null

\* C32: whatever body POST /api/bookings is sent, an answer other than 201
\* leaves the stored bookings exactly as they were, and a 201 adds exactly
\* one booking and changes none of the stored ones.
C32_SubmitFrame ==
  \A req \in Requests :
    LET out == SubmitResult(bookings, seq, now, req) IN
      IF out.resp.code = 201
        THEN /\ Cardinality(DOMAIN out.bookings \ DOMAIN bookings) = 1
             /\ DOMAIN bookings \subseteq DOMAIN out.bookings
             /\ \A id \in DOMAIN bookings : out.bookings[id] = bookings[id]
        ELSE out.bookings = bookings

\* C32 witness: an INSERT has just failed (500) after a booking was stored:
\* the sequence moved on and the stored bookings are still the one.
C32_RejectedInsert ==
  /\ resp.code = 500
  /\ seq = 2
  /\ DOMAIN bookings = {1}

\* C33: two booking lists with the same buildBookingsSignature give the same
\* points when generateBusyDayForecast is evaluated on them at the same time
\* with the same options.
C33_SameSignatureSamePoints ==
  (calc.last # Null /\ Val(calc.last).generated_at = Some(clock)) =>
    \A other \in Histories :
      buildBookingsSignature(other) = buildBookingsSignature(calc.bookings) =>
        generateBusyDayForecast(other, calc.options, clock).points
          = Val(calc.last).points

\* ------------------------------------------------- the admin page, at rest
\* C34: once no effect is pending, a displayed fallback forecast is
\* generateBusyDayForecast of the current booking list and fallbackSignature
\* is the signature of the current booking list, however the bookings loads
\* and the failing forecast fetches were interleaved.
C34_FallbackOfCurrentList ==
  (FallbackShown /\ Quiescent) =>
    /\ page.forecast = Some(generateBusyDayForecast(page.bookings, PageOptions, clock))
    /\ page.fallbackSignature = Some(buildBookingsSignature(page.bookings))

\* No effect is pending and no fetch is in flight.
AtRest == Quiescent /\ ~page.loadingBk /\ ~page.loadingForecast

\* C35: at rest with a fallback forecast displayed, forecastNote is
\* fallbackForecastNote(h), h being whether the current booking list is
\* non-empty.
C35_NoteMatchesBookings ==
  (FallbackShown /\ AtRest) =>
    page.forecastNote = Some(fallbackForecastNote(Len(page.bookings) > 0))

\* The displayed forecast came from the remote fetch.
RemoteShown == page.forecast # Null /\ Val(page.forecast).model = "remote"

\* C36: a remote fetch that succeeds leaves its result displayed with
\* fallbackSignature null, and while no later load is in flight the
\* displayed remote forecast and the null signature stay as they are,
\* whatever happens to the booking list.
C36_RemoteForecastKept ==
  [][/\ \A res \in RemoteForecasts :
          LoadForecastResolve(res) =>
            /\ RemoteShown'
            /\ Val(page'.forecast).points = res.points
            /\ page'.fallbackSignature = Null
     /\ (RemoteShown /\ page.captured = Null) =>
          /\ page'.forecast = page.forecast
          /\ page'.fallbackSignature = Null]_vars

\* ---------------------------------------------------------------- C37
\* The forecast effects have nothing left to do and a completed attempt has
\* left a forecast on the page.
ForecastSettled ==
  /\ ~page.loadingForecast
  /\ page.forecastAttempted
  /\ page.forecast # Null
  /\ ~AutoLoadDue /\ ~RetryLoadDue /\ ~RecomputeDue

\* C37: once the DASHBOARD tab is open, with effects and pending fetches
\* scheduled fairly, the page reaches a state where loadingForecast is false,
\* forecastAttempted is true, a forecast is shown and no forecast effect is
\* due; and from such a state every step that is neither a forecast refresh
\* nor a change of the booking list leads to such a state again.
C37_ForecastEffectsSettle ==
  /\ (page.tab = "DASHBOARD") ~> ForecastSettled
  /\ [][(ForecastSettled /\ ~handleForecastRefresh /\ page'.bookings = page.bookings)
          => ForecastSettled']_vars

\* A fallback made from a non-empty list is on the dashboard and nothing is
\* due.
C37_SettledOnDashboard ==
  /\ page.tab = "DASHBOARD"
  /\ ForecastSettled
  /\ FallbackShown
  /\ Len(page.bookings) > 0

\* ---------------------------------------------------------------- C38
\* C38: once an attempt has completed (forecastAttempted is true) it stays
\* completed, neither load effect is due whatever tab and booking list
\* become, and a step that starts a load is the Refresh button's, not an
\* effect's.
C38_NoAutomaticReload ==
  [][page.forecastAttempted =>
       /\ page'.forecastAttempted
       /\ ~AutoLoadDue' /\ ~RetryLoadDue'
       /\ (~page.loadingForecast /\ page'.loadingForecast) =>
            /\ handleForecastRefresh
            /\ ~AutoLoadDue /\ ~RetryLoadDue]_vars

\* An attempt made with an empty list has completed, and the dashboard now
\* shows a list with bookings that count.
C38_AttemptedThenBookingsArrived ==
  /\ page.forecastAttempted
  /\ ~page.loadingForecast
  /\ page.tab = "DASHBOARD"
  /\ page.fallbackSignature = Some(buildBookingsSignature(<<>>))
  /\ buildBookingsSignature(page.bookings) # buildBookingsSignature(<<>>)

\* ---------------------------------------------------------------- C39
\* C39: no bucket of a call's history is dated after the day of the call, so
\* a point whose date has a bucket 7 days before it lies at offset 7 or
\* less, and every point at offset 8 or more carries the rounded weekday
\* average of its day's weekday, or the rounded overall mean when that
\* weekday has no history.
C39_NoBlendBeyondAWeek ==
  calc.last # Null =>
    LET today == Today(Val(Val(calc.last).generated_at))
        points == Val(calc.last).points
    IN /\ \A d \in DOMAIN BucketsOfLast : d <= today
       /\ \A i \in DOMAIN points :
            /\ points[i].date = today + i
            /\ (points[i].date - 7) \in DOMAIN BucketsOfLast => i <= 7
            /\ i >= 8 =>
                 points[i].expectedBookings
                   = ToFixed(StatedBaseline(BucketsOfLast, points[i].date), 100)

\* The 14-day forecast of the uneven history made on day 0: day 6 is blended
\* with the smoothed value of day -1 (5.09); day 13, the same weekday, has
\* nothing to blend with and carries the weekday average (6.00); day 8
\* carries its weekday's average (2.00) and day 9 the overall mean (4.67).
C39_SecondWeekUnblended ==
  /\ calc.last # Null
  /\ calc.bookings = Uneven
  /\ Val(calc.last).generated_at = Some(0)
  /\ Len(Val(calc.last).points) = 14
  /\ Val(calc.last).points[6].expectedBookings = 509
  /\ Val(calc.last).points[13].expectedBookings = 600
  /\ Val(calc.last).points[8].expectedBookings = 200
  /\ Val(calc.last).points[9].expectedBookings = 467

====
